---- MODULE Spec2Model ----
(***************************************************************************)
(* A model of the 5eBot Discord bot (src/main.py): the journal reply-note  *)
(* handler on_message, the checklist reaction handler on_reaction_add,     *)
(* split_message, and the roll and travel commands.                        *)
(*                                                                         *)
(* Message bodies are sequences of tokens.  A token is an atom of text     *)
(* that the handlers never look inside: a newline, a user mention, the     *)
(* words "Personal Note", the checklist marker "today?)*", an emoji, or a  *)
(* run of other text.  `x in line` of the source is token membership.      *)
(***************************************************************************)
EXTENDS Integers, Sequences, FiniteSets, TLC

VARIABLES
    body,       \* content of the journal post as the platform stores it
    cached,     \* message.content of the bot's cached Message object of the post
    gateway,    \* MESSAGE_UPDATE events sent by the platform, not yet processed
    reactors,   \* emoji -> users currently reacting to the post with it
    h,          \* slot -> the handler invocation running in it
    handled,    \* number of events dispatched so far
    sm,         \* the call of split_message
    rl,         \* the invocation of the roll command
    tr,         \* the invocation of the travel command
    jc,         \* the invocation of day, checklist, encounter, entry or rest
    sp,         \* the invocation of the spell command
    ai,         \* the handling of a message outside the journal's note system
    de          \* the call of _remove_description_decorators

jvars == <<body, cached, gateway, reactors, h, handled>>
notJournal == <<sm, rl, tr, jc, sp, ai, de>>
notSplit == <<jvars, rl, tr, jc, sp, ai, de>>
notRoll == <<jvars, sm, tr, jc, sp, ai, de>>
notTravel == <<jvars, sm, rl, jc, sp, ai, de>>
notGated == <<jvars, sm, rl, tr, sp, ai, de>>
notSpell == <<jvars, sm, rl, tr, jc, ai, de>>
notChat == <<jvars, sm, rl, tr, jc, sp, de>>
notDecorators == <<jvars, sm, rl, tr, jc, sp, ai>>
vars == <<jvars, sm, rl, tr, jc, sp, ai, de>>

----------------------------------------------------------------------------
(* Bounds *)

MaxEvents == 2      \* events dispatched in one behaviour

\* the handler invocations that may be in flight together
Slots == {1, 2}

----------------------------------------------------------------------------
(* Text *)

NL == "\n"
PersonalNote == "Personal Note"
ChecklistMarker == "today?)*"

Users == {"dm", "u1", "u2"}

\* message.author.mention
Mention(u) == CASE u = "dm" -> "<@dm>" [] u = "u1" -> "<@u1>" [] OTHER -> "<@u2>"

\* user.display_name
DisplayName(u) == CASE u = "dm" -> "Dana" [] u = "u1" -> "Uma" [] OTHER -> "Udo"

\* the users who hold the role named "Dungeon Master"
DungeonMasters == {"dm"}

AnyoneIsDungeonMaster(u) == TRUE

has_role_anyone(u, item) == TRUE

\* @app_commands.checks.has_role(item): the invoking member holds the role
has_role(u, item) == item = "Dungeon Master" /\ u \in DungeonMasters

\* any(role.name == 'Dungeon Master' for role in message.author.roles)
IsDungeonMaster(u) == u \in DungeonMasters

\* config['characters']: the profiles, in configured order; an id is the
\* text that identifies the user inside a mention
characters_dict == << [id |-> "u1", emoji |-> "e:u1"], [id |-> "u2", emoji |-> "e:u2"] >>

CheckMark == "chr(9989)"
CrossMark == "chr(10060)"
Emojis == {CheckMark, CrossMark, "heart"}

Contains(s, tok) == \E i \in 1..Len(s) : s[i] = tok

\* item['id'] in text: the id occurs in text exactly where its mention does
IdIn(id, s) == Contains(s, Mention(id))

\* str.split('\n')
RECURSIVE SplitNL(_)
SplitNL(s) ==
    IF ~Contains(s, NL) THEN <<s>>
    ELSE LET k == CHOOSE i \in 1..Len(s) : s[i] = NL /\ \A j \in 1..(i-1) : s[j] # NL
         IN  <<SubSeq(s, 1, k-1)>> \o SplitNL(SubSeq(s, k+1, Len(s)))

----------------------------------------------------------------------------
(* on_message: the journal reply-note system *)

\* the loop of "!clear": keeps a line unless it holds the user's mention
\* and "Personal Note"; every kept line is followed by a newline
RECURSIVE ClearNotes(_, _)
ClearNotes(lines, user) ==
    IF lines = <<>> THEN <<>>
    ELSE (IF ~Contains(Head(lines), user) \/ ~Contains(Head(lines), PersonalNote)
          THEN Head(lines) \o <<NL>> ELSE <<>>)
         \o ClearNotes(Tail(lines), user)

\* the loop of "!clearall"
RECURSIVE ClearAllNotes(_)
ClearAllNotes(lines) ==
    IF lines = <<>> THEN <<>>
    ELSE (IF ~Contains(Head(lines), PersonalNote)
          THEN Head(lines) \o <<NL>> ELSE <<>>)
         \o ClearAllNotes(Tail(lines))

\* for item in characters_dict: if item['id'] in text: char_dict = item; break
\* 0 stands for char_dict = None
CharDict(text) ==
    LET hits == {i \in 1..Len(characters_dict) : IdIn(characters_dict[i].id, text)}
    IN  IF hits = {} THEN 0 ELSE CHOOSE i \in hits : \A j \in hits : i <= j

\* characters of the set "!replyas " that str.lstrip removes
StripSet == {"!replyas", "!", "r", "e", "p", "l", "y", "a", "s", " "}

\* note.lstrip("!replyas "): drops leading tokens made only of characters
\* of the set
RECURSIVE LStrip(_)
LStrip(s) == IF s # <<>> /\ Head(s) \in StripSet THEN LStrip(Tail(s)) ELSE s

\* f'> **Personal Note** {char_emoji} {note.lstrip("!replyas ")}'
ReplyAsLine(char_emoji, note) ==
    <<"> **", PersonalNote, "** ", char_emoji, " ">> \o LStrip(note)

\* f'> **Personal Note** {char_emoji} {user} {note}'
NoteLine(char_emoji, user, note) ==
    <<"> **", PersonalNote, "** ", char_emoji, " ", user, " ">> \o note

\* the replies users write
Notes == {
    <<"!clear">>,
    <<"!clearall">>,
    <<"!replyas", " ", "<@u1>", " ", "hi">>,
    <<"!replyas", " ", "s", "e", "e">>,
    <<"!replyas", " ", "s", "e", "e", " ", "<@u2>">>,
    <<"hi">>,
    <<"ok", NL, "<@u2>">> }

Idle == [kind |-> "none", pc |-> "idle", user |-> "dm", note |-> <<>>, emoji |-> "heart",
         orig |-> <<>>, new |-> <<>>, users |-> <<>>, pending |-> <<>>,
         before |-> <<>>, edits |-> 0, deleted |-> FALSE,
         read |-> <<>>, last |-> FALSE, target |-> "post", removes |-> 0]

\* Message.edit(content = ...) puts the given content in the place of the
\* stored one
EditedAppending(stored, content) == stored \o content
Edited(stored, content) == content

\* the edit of handler s has landed: it is the last one now
Landed(s, new) ==
    [r \in Slots |-> IF r = s THEN [h[s] EXCEPT !.new = new, !.edits = @ + 1, !.last = TRUE]
                     ELSE [h[r] EXCEPT !.last = FALSE]]

Finished(s) == h[s].pc \in {"idle", "done", "returned", "crashed", "ignored"}
Active(s) == ~Finished(s)

\* an event is dispatched into the lowest slot that holds no running handler
FreeSlot(s) == Finished(s) /\ \A r \in Slots : r < s => Active(r)

\* no handler is between two of its awaits
Quiet == \A s \in Slots : Finished(s)

\* what on_message leaves in new_content and where it goes next, for a
\* reply `note` by user u to the post whose fetched content is orig
Classify(u, note, orig) ==
    LET user == Mention(u) IN
    IF note = <<"!clear">> THEN
        [pc |-> "compare", new |-> ClearNotes(SplitNL(orig), user)]
    ELSE IF note = <<"!clearall">> THEN
        IF IsDungeonMaster(u)
        THEN [pc |-> "compare", new |-> ClearAllNotes(SplitNL(orig))]
        ELSE [pc |-> "returned", new |-> orig]
    ELSE IF Len(note) >= 1 /\ note[1] = "!replyas" THEN
        LET c == CharDict(note) IN
        IF IsDungeonMaster(u)
        THEN IF c = 0 THEN [pc |-> "crashed", new |-> <<>>]   \* char_emoji is unbound
             ELSE [pc |-> "compare",
                   new |-> orig \o <<NL>> \o ReplyAsLine(characters_dict[c].emoji, note)]
        ELSE [pc |-> "returned", new |-> orig]
    ELSE
        LET c == CharDict(<<user>>) IN
        IF c = 0 THEN [pc |-> "crashed", new |-> <<>>]        \* char_emoji is unbound
        ELSE [pc |-> "compare",
              new |-> orig \o <<NL>> \o NoteLine(characters_dict[c].emoji, user, note)]

\* if message.author == bot.user: return
SentByNobody(author) == FALSE
SentByBot(author) == author = "bot"

\* A reply `note` by u to the bot's journal post arrives; a reply of the
\* bot's own is left alone, for any other the handler fetches the post and
\* computes new_content.
on_message(s, u, note) ==
    /\ FreeSlot(s)
    /\ handled < MaxEvents
    /\ LET c == IF SentByBot(u) THEN [pc |-> "returned", new |-> body]
                ELSE Classify(u, note, body)
           \* if new_content != orig_message.content: edit, then delete
           next == IF c.pc # "compare" THEN c.pc
                   ELSE IF c.new # body THEN "edit" ELSE "delete"
       IN  h' = [h EXCEPT ![s] = [Idle EXCEPT !.kind = "msg", !.pc = next, !.user = u,
                                   !.note = note, !.orig = body, !.new = c.new,
                                   !.before = body, !.read = body]]
    /\ handled' = handled + 1
    /\ UNCHANGED <<body, cached, gateway, reactors, notJournal>>

\* await orig_message.edit(content = new_content)
on_message_edit(s) ==
    /\ h[s].kind = "msg" /\ h[s].pc = "edit"
    /\ body' = Edited(body, h[s].new)
    /\ gateway' = Append(gateway, body')
    /\ h' = [Landed(s, h[s].new) EXCEPT ![s].pc = "delete"]
    /\ UNCHANGED <<cached, reactors, handled, notJournal>>

\* await message.delete()
on_message_delete(s) ==
    /\ h[s].kind = "msg" /\ h[s].pc = "delete"
    /\ h' = [h EXCEPT ![s].pc = "done", ![s].deleted = TRUE]
    /\ UNCHANGED <<body, cached, gateway, reactors, handled, notJournal>>

\* the client processes a MESSAGE_UPDATE event: the cached Message object
\* takes the edited content
message_update ==
    /\ gateway # <<>>
    /\ cached' = Head(gateway)
    /\ gateway' = Tail(gateway)
    /\ UNCHANGED <<body, reactors, h, handled, notJournal>>

----------------------------------------------------------------------------
(* on_reaction_add: the checklist tracker *)

\* reaction.users() yields the reacting users in the platform's order
UserOrder == <<"dm", "u1", "u2">>
UsersOf(e) == SelectSeq(UserOrder, LAMBDA u : u \in reactors[e])

\* f'> {reaction.emoji} {user.display_name}'
ReactionLine(e, u) == <<"> ", e, " ", DisplayName(u)>>

\* The messages a reaction can be added to: the bot's journal post, a
\* player's message in the journal channel, and a message of the bot in a
\* channel that is no journal channel.  The last two quote the checklist.
ReactionMessages == {"post", "note", "answer"}
AuthorOf(m) == IF m = "note" THEN "u1" ELSE "bot"
ChannelOf(m) == IF m = "answer" THEN "other" ELSE "journal"
ChecklistQuote == <<"Did I eat ", ChecklistMarker>>
\* content = message.content, of the cached message
ContentOf(m) == IF m = "post" THEN cached ELSE ChecklistQuote

\* message.channel.id in journal_channelids and "today?)*" in content
TracksAnyChannel(channel, content) == Contains(content, ChecklistMarker)
TracksChecklist(channel, content) ==
    channel = "journal" /\ Contains(content, ChecklistMarker)

\* User u adds reaction e to message m; the handler reads message.content
\* of the cached message and picks its branch.  `reactors` holds the
\* reactions of the journal post.
on_reaction_add(s, u, e, m) ==
    /\ FreeSlot(s)
    /\ handled < MaxEvents
    /\ m = "post" => u \notin reactors[e]
    /\ reactors' = IF m = "post" THEN [reactors EXCEPT ![e] = @ \cup {u}] ELSE reactors
    /\ LET content == ContentOf(m)
           next == IF AuthorOf(m) # "bot" THEN "returned"
                   ELSE IF TracksChecklist(ChannelOf(m), content)
                   THEN IF e \in {CheckMark, CrossMark} THEN "users" ELSE "remove"
                   ELSE "ignored"
       IN  h' = [h EXCEPT ![s] = [Idle EXCEPT !.kind = "react", !.pc = next, !.user = u,
                                   !.emoji = e, !.orig = content, !.before = body,
                                   !.target = m]]
    /\ handled' = handled + 1
    /\ UNCHANGED <<body, cached, gateway, notJournal>>

\* async for user in reaction.users(): the users are fetched
reaction_users(s) ==
    /\ h[s].kind = "react" /\ h[s].pc = "users"
    /\ LET us == UsersOf(h[s].emoji)
       IN  h' = [h EXCEPT ![s].pending = us,
                          ![s].users = us,
                          ![s].pc = IF us = <<>> THEN "done" ELSE "edit"]
    /\ UNCHANGED <<body, cached, gateway, reactors, handled, notJournal>>

\* current_content = message.content + '\n' + append;
\* await message.edit(content = current_content)
reaction_edit(s) ==
    /\ h[s].kind = "react" /\ h[s].pc = "edit"
    /\ LET current_content ==
               cached \o <<NL>> \o ReactionLine(h[s].emoji, Head(h[s].pending))
       IN  /\ body' = Edited(body, current_content)
           /\ gateway' = Append(gateway, body')
           /\ h' = [Landed(s, current_content) EXCEPT ![s].pc = "remove_user",
                                                     ![s].read = cached]
    /\ UNCHANGED <<cached, reactors, handled, notJournal>>

\* await reaction.remove(user), inside the loop
reaction_remove_user(s) ==
    /\ h[s].kind = "react" /\ h[s].pc = "remove_user"
    /\ reactors' = [reactors EXCEPT ![h[s].emoji] = @ \ {Head(h[s].pending)}]
    /\ h' = [h EXCEPT ![s].pending = Tail(@),
                       ![s].removes = @ + 1,
                       ![s].pc = IF Tail(h[s].pending) = <<>> THEN "done" ELSE "edit"]
    /\ UNCHANGED <<body, cached, gateway, handled, notJournal>>

\* await reaction.remove(user), for an emoji that is neither mark
reaction_remove(s) ==
    /\ h[s].kind = "react" /\ h[s].pc = "remove"
    /\ reactors' = [reactors EXCEPT ![h[s].emoji] = @ \ {h[s].user}]
    /\ h' = [h EXCEPT ![s].pc = "done", ![s].removes = @ + 1]
    /\ UNCHANGED <<body, cached, gateway, handled, notJournal>>

----------------------------------------------------------------------------

InitBodies == { <<"Day 1", NL, "log">>, <<"Did you eat ", ChecklistMarker>> }

\* reactions whose events the client missed are still on the post
InitReactors ==
    {[e \in Emojis |-> IF e = CheckMark THEN us ELSE {}] : us \in {{}, {"u1"}, {"u1", "u2"}}}

\* Handlers run one after another: an event is dispatched only when no
\* handler is between two of its awaits.  MESSAGE_UPDATE events are
\* processed whenever the client gets to them.
JNext ==
    \/ \E s \in Slots, u \in Users \cup {"bot"}, note \in Notes :
           Quiet /\ on_message(s, u, note)
    \/ \E s \in Slots : on_message_edit(s)
    \/ \E s \in Slots : on_message_delete(s)
    \/ \E s \in Slots, u \in Users, e \in Emojis, m \in ReactionMessages :
           Quiet /\ on_reaction_add(s, u, e, m)
    \/ \E s \in Slots : reaction_users(s)
    \/ \E s \in Slots : reaction_edit(s)
    \/ \E s \in Slots : reaction_remove_user(s)
    \/ \E s \in Slots : reaction_remove(s)
    \/ message_update

\* Handlers interleave at their awaits: an event is dispatched while
\* another handler is between two of its awaits
\* the events that race: replies of two players and their reactions
RaceUsers == {"u1", "u2"}
RaceNotes == { <<"hi">>, <<"!clear">> }
RaceEmojis == {CheckMark, "heart"}

RaceNext ==
    \/ \E s \in Slots, u \in RaceUsers, note \in RaceNotes : on_message(s, u, note)
    \/ \E s \in Slots : on_message_edit(s)
    \/ \E s \in Slots : on_message_delete(s)
    \/ \E s \in Slots, u \in RaceUsers, e \in RaceEmojis : on_reaction_add(s, u, e, "post")
    \/ \E s \in Slots : reaction_users(s)
    \/ \E s \in Slots : reaction_edit(s)
    \/ \E s \in Slots : reaction_remove_user(s)
    \/ \E s \in Slots : reaction_remove(s)
    \/ message_update

----------------------------------------------------------------------------
(* split_message *)

MaxText == 5        \* longest message given to split_message
MaxLimit == 3       \* largest CHARLIMIT
MaxParts == 4       \* parts after which the loop is no longer followed

TextChars == {"a", "b", NL}

RECURSIVE SeqsUpTo(_, _)
SeqsUpTo(S, n) ==
    IF n = 0 THEN {<<>>}
    ELSE LET shorter == SeqsUpTo(S, n - 1)
         IN  shorter \cup {Append(q, c) : q \in {x \in shorter : Len(x) = n - 1}, c \in S}

Texts == SeqsUpTo(TextChars, MaxText)

\* content[:n]
Prefix(s, n) == SubSeq(s, 1, IF n < Len(s) THEN n ELSE Len(s))
\* content[n:]
Suffix(s, n) == SubSeq(s, n + 1, Len(s))

\* s.rfind("\n"), counted from 0; -1 when there is none
RFindNL(s) ==
    LET hits == {i \in 1..Len(s) : s[i] = NL}
    IN  IF hits = {} THEN -1 ELSE (CHOOSE i \in hits : \A j \in hits : j <= i) - 1

SplitIndexPastLimit(content, limit) ==
    LET i == RFindNL(Prefix(content, limit)) IN IF i = -1 THEN limit + 1 ELSE i

\* split_index = content[:CHARLIMIT].rfind("\n"), or CHARLIMIT if that is -1
SplitIndex(content, limit) ==
    LET i == RFindNL(Prefix(content, limit)) IN IF i = -1 THEN limit ELSE i

SplitIdle == [pc |-> "idle", message |-> <<>>, limit |-> 1,
                   parts |-> <<>>, content |-> <<>>]

\* split_message(message) is called with CHARLIMIT = limit
split_message(message, limit) ==
    /\ sm.pc = "idle"
    /\ sm' = IF Len(message) > limit
             THEN [pc |-> "loop", message |-> message, limit |-> limit,
                   parts |-> <<>>, content |-> message]
             ELSE [pc |-> "returned", message |-> message, limit |-> limit,
                   parts |-> <<message>>, content |-> message]
    /\ UNCHANGED notSplit

\* one turn of: while len(content) > CHARLIMIT
split_message_loop ==
    /\ sm.pc = "loop"
    /\ Len(sm.content) > sm.limit
    /\ Len(sm.parts) < MaxParts
    /\ LET split_index == SplitIndex(sm.content, sm.limit)
       IN  sm' = [sm EXCEPT !.parts = Append(@, Prefix(sm.content, split_index)),
                            !.content = Suffix(sm.content, split_index)]
    /\ UNCHANGED notSplit

\* parts.append(content); return parts
split_message_return ==
    /\ sm.pc = "loop"
    /\ Len(sm.content) <= sm.limit
    /\ sm' = [sm EXCEPT !.parts = Append(@, sm.content), !.pc = "returned"]
    /\ UNCHANGED notSplit

SNext ==
    \/ \E message \in Texts, limit \in 1..MaxLimit : split_message(message, limit)
    \/ split_message_loop
    \/ split_message_return

----------------------------------------------------------------------------
(* roll *)

MaxDice == 3        \* longest dice string drawn from DiceChars
MaxModifier == 2    \* longest modifier string drawn from ModifierChars

Digits == {"0", "1", "2", "3", "4", "5", "6", "7", "8", "9"}
DiceChars == {"1", "d", "+"}
ModifierChars == {"+", "-", "1", "2"}

\* dice strings: every short string, and some longer ones
DiceStrings ==
    SeqsUpTo(DiceChars, MaxDice) \cup
    { <<"1", "d", "2">>, <<"2", "d", "2">>, <<"2", "d", "3">>,
      <<"1", "d", "2", "+", "1">>, <<"2", "d", "2", "-", "1">>, <<"0", "d", "2">>,
      <<"1", "d", "0">>, <<"1", "0", "d", "1">>, <<"1", "d", "1", "0">>,
      <<"3", "d", "2">>, <<"1", "d", "2", "d", "2">>, <<"1", "d", "+", "2">> }

\* modifier strings; <<>> is the modifier left out
ModifierStrings == SeqsUpTo(ModifierChars, MaxModifier)

IsDigits(s) == Len(s) >= 1 /\ \A i \in 1..Len(s) : s[i] \in Digits

dice_pattern_no_count(s) ==
    \E i \in 1..Len(s) :
        /\ s[i] = "d" /\ IsDigits(SubSeq(s, i + 1, Len(s)))
        /\ \A j \in 1..(i - 1) : s[j] \in Digits

\* re.match(r'^\d+d\d+$', s)
dice_pattern(s) ==
    \E i \in 1..Len(s) :
        s[i] = "d" /\ IsDigits(SubSeq(s, 1, i - 1)) /\ IsDigits(SubSeq(s, i + 1, Len(s)))

\* re.match(r'^[+-]\d+$', s)
modifier_pattern(s) == Len(s) >= 2 /\ s[1] \in {"+", "-"} /\ IsDigits(Tail(s))

\* re.match(r'^\d+d\d+[+-]\d+$', s)
combined_pattern(s) ==
    \E i \in 1..Len(s) :
        dice_pattern(SubSeq(s, 1, i - 1)) /\ modifier_pattern(SubSeq(s, i, Len(s)))

DigitValue(c) ==
    CASE c = "0" -> 0 [] c = "1" -> 1 [] c = "2" -> 2 [] c = "3" -> 3 [] c = "4" -> 4
      [] c = "5" -> 5 [] c = "6" -> 6 [] c = "7" -> 7 [] c = "8" -> 8 [] OTHER -> 9

\* int(s) for a string of digits
RECURSIVE IntOfDigits(_)
IntOfDigits(s) ==
    IF s = <<>> THEN 0
    ELSE 10 * IntOfDigits(SubSeq(s, 1, Len(s) - 1)) + DigitValue(s[Len(s)])

IntOfUnsigned(s) == IntOfDigits(Tail(s))

\* int(modifier) for a modifier that matches modifier_pattern
IntOfSigned(s) == IF s[1] = "-" THEN 0 - IntOfDigits(Tail(s)) ELSE IntOfDigits(Tail(s))

\* dice.split('d'), for a dice string that matches dice_pattern
DicePos(dice) == CHOOSE i \in 1..Len(dice) : dice[i] = "d"
RollsOf(dice) == IntOfDigits(SubSeq(dice, 1, DicePos(dice) - 1))
LimitOf(dice) == IntOfDigits(SubSeq(dice, DicePos(dice) + 1, Len(dice)))

RandIntsFromZero(rolls, limit) == IF rolls = 0 THEN {<<>>} ELSE [1..rolls -> 0..limit]

\* what [random.randint(1, limit) for r in range(rolls)] can give
RandInts(rolls, limit) == IF rolls = 0 THEN {<<>>} ELSE [1..rolls -> 1..limit]

RECURSIVE Sum(_)
Sum(s) == IF s = <<>> THEN 0 ELSE Head(s) + Sum(Tail(s))

NoMessage == [kind |-> "none", ephemeral |-> FALSE, flagged |-> FALSE,
              values |-> <<>>, has_total |-> FALSE, with_modifier |-> FALSE, total |-> 0]

RollIdle == [pc |-> "idle", dice |-> <<>>, modifier |-> <<>>, draws |-> 0,
                  sent |-> <<>>]

\* the /roll command with its two string parameters
roll(dice, modifier) ==
    /\ rl.pc = "idle"
    /\ IF ~dice_pattern(dice) THEN
           rl' = [rl EXCEPT !.pc = "done", !.dice = dice, !.modifier = modifier,
                    !.sent = <<[NoMessage EXCEPT !.kind = "invalid_dice", !.ephemeral = TRUE,
                                                 !.flagged = combined_pattern(dice)]>>]
       ELSE IF modifier # <<>> /\ ~modifier_pattern(modifier) THEN
           rl' = [rl EXCEPT !.pc = "done", !.dice = dice, !.modifier = modifier,
                    !.sent = <<[NoMessage EXCEPT !.kind = "invalid_modifier",
                                                 !.ephemeral = TRUE]>>]
       ELSE LET rolls == RollsOf(dice)
                limit == LimitOf(dice)
            IN  IF rolls >= 1 /\ limit < 1
                THEN \* random.randint(1, limit) raises ValueError
                     rl' = [rl EXCEPT !.pc = "crashed", !.dice = dice, !.modifier = modifier]
                ELSE \E diceroll \in RandInts(rolls, limit) :
                     rl' = [rl EXCEPT
                        !.pc = "done", !.dice = dice, !.modifier = modifier,
                        !.draws = rolls,
                        !.sent = <<[NoMessage EXCEPT
                            !.kind = "result",
                            !.values = diceroll,
                            !.with_modifier = (modifier # <<>>),
                            !.has_total = (modifier # <<>> \/ rolls > 1),
                            !.total = IF modifier # <<>>
                                      THEN Sum(diceroll) + IntOfSigned(modifier)
                                      ELSE IF rolls > 1 THEN Sum(diceroll) ELSE 0]>>]
    /\ UNCHANGED notRoll

RNext == \E dice \in DiceStrings, modifier \in ModifierStrings : roll(dice, modifier)

----------------------------------------------------------------------------
(* travel *)

MaxNav == 26        \* largest navigator check

NavChecks == (0 - 1)..MaxNav
Paces == {"normal", "fast", "cautious"}

\* location_dict['options']: the configured hexes with their DC
location_options ==
    << [value |-> "port", dc |-> 0], [value |-> "road", dc |-> 10],
       [value |-> "jungle", dc |-> 15], [value |-> "swamp", dc |-> 20] >>

Hexes == {location_options[i].value : i \in 1..Len(location_options)}

\* next((option for option in location_dict['options'] if option['value'] == hex), None)
\* is an option, not None
KnownHex(hex) == \E i \in 1..Len(location_options) : location_options[i].value = hex

\* the ['dc'] of that option, the first one with the value
DCOf(hex) ==
    LET hits == {i \in 1..Len(location_options) : location_options[i].value = hex}
    IN  location_options[CHOOSE i \in hits : \A j \in hits : i <= j].dc

PaceDCFastOnly(start_dc, pace) == IF pace = "fast" THEN start_dc + 5 ELSE start_dc

\* if pace == "fast": start_dc += 5 / elif pace == "cautious": start_dc -= 5
PaceDC(start_dc, pace) ==
    IF pace = "fast" THEN start_dc + 5
    ELSE IF pace = "cautious" THEN start_dc - 5
    ELSE start_dc

SlowRollsAnyPace(pace) == 1..4

\* slow_roll = random.randint(1, 4), in the "cautious" branch only; 0 stands
\* for no roll made
SlowRolls(pace) == IF pace = "cautious" THEN 1..4 ELSE {0}

Mired == "fail to leave their current hex"
Success == "Success!"
Lost == "become lost"

SurvivalPointsNoneLast(nav_check, end_dc) ==
    LET points == IF nav_check - end_dc > 0 THEN nav_check - end_dc ELSE 0
        first == IF end_dc = 0 THEN [kind |-> "N/A", n |-> 0]
                 ELSE [kind |-> "int", n |-> points]
    IN  IF points = 0 THEN [kind |-> "None", n |-> 0] ELSE first

\* survival_points = max(nav_check - end_dc, 0); "None" if that is 0;
\* "N/A" if end_dc is 0
SurvivalPoints(nav_check, end_dc) ==
    LET points == IF nav_check - end_dc > 0 THEN nav_check - end_dc ELSE 0
        named == IF points = 0 THEN [kind |-> "None", n |-> 0]
                 ELSE [kind |-> "int", n |-> points]
    IN  IF end_dc = 0 THEN [kind |-> "N/A", n |-> 0] ELSE named

TravelIdle ==
    [pc |-> "idle", start_hex |-> "port", target_hex |-> "port", pace |-> "normal",
     nav_check |-> 0, encounter |-> FALSE, start_dc |-> 0, slow_roll |-> 0,
     navigate_result |-> "", end_hex |-> "", selected |-> "", end_dc |-> 0,
     survival_points |-> [kind |-> "unset", n |-> 0], sent |-> <<>>, user |-> "dm"]

\* the outcome follow-up, sent once end_hex is fixed
Outcome(t, navigate_result, end_hex) ==
    IF ~KnownHex(end_hex) THEN [t EXCEPT !.pc = "crashed"]    \* None['dc']: TypeError
    ELSE [t EXCEPT !.pc = "done",
                   !.navigate_result = navigate_result,
                   !.end_hex = end_hex,
                   !.end_dc = DCOf(end_hex),
                   !.survival_points = SurvivalPoints(t.nav_check, DCOf(end_hex)),
                   !.sent = Append(@, IF t.encounter THEN "outcome_encounter" ELSE "outcome")]

BecameLostNoWait(t) ==
    Outcome([t EXCEPT !.sent = Append(@, "lost_menu")], Lost, t.target_hex)

\* the check is below the DC: the "party became lost" menu is sent and the
\* handler waits for the selection
BecameLost(t) ==
    [t EXCEPT !.pc = "select", !.navigate_result = Lost, !.sent = Append(@, "lost_menu")]

\* the /travel command: the "setting out" response is sent
\* a member without the role is turned away before the body runs
travel(user, start_hex, target_hex, pace, nav_check, encounter) ==
    /\ tr.pc = "idle"
    /\ tr' = IF ~has_role(user, "Dungeon Master")
             THEN [tr EXCEPT !.pc = "rejected", !.user = user]
             ELSE [tr EXCEPT !.pc = "sleep", !.user = user,
                             !.start_hex = start_hex, !.target_hex = target_hex,
                             !.pace = pace, !.nav_check = nav_check, !.encounter = encounter,
                             !.sent = <<"setting_out">>]
    /\ UNCHANGED notTravel

\* after time.sleep(5.0): the DC, the pace, the navigation check
travel_resolve ==
    /\ tr.pc = "sleep"
    /\ IF ~KnownHex(tr.start_hex) THEN tr' = [tr EXCEPT !.pc = "crashed"]  \* None['dc']
       ELSE LET start_dc == PaceDC(DCOf(tr.start_hex), tr.pace)
            IN  \E slow_roll \in SlowRolls(tr.pace) :
                LET t == [tr EXCEPT !.start_dc = start_dc, !.slow_roll = slow_roll]
                IN  IF slow_roll = 1 THEN tr' = Outcome(t, Mired, tr.start_hex)
                    ELSE IF tr.nav_check >= start_dc
                    THEN tr' = Outcome(t, Success, tr.target_hex)
                    ELSE tr' = BecameLost(t)
    /\ UNCHANGED notTravel

\* end_hex = await view.wait_for_selection(): the user picks an option
wait_for_selection(value) ==
    /\ tr.pc = "select"
    /\ tr' = Outcome([tr EXCEPT !.selected = value], Lost, value)
    /\ UNCHANGED notTravel

TNext ==
    \/ /\ tr.pc = "idle"
       /\ \E user \in Users, start_hex \in Hexes, target_hex \in Hexes, pace \in Paces,
             nav_check \in NavChecks, encounter \in BOOLEAN :
               travel(user, start_hex, target_hex, pace, nav_check, encounter)
    \/ travel_resolve
    \/ \E value \in Hexes : wait_for_selection(value)

\* start_hex: str and target_hex: str as the handler receives them.  The
\* choices of the two parameters are the configured options; the handler
\* itself does not check the value it is given.
HexValues == Hexes \cup {"unlisted"}

AnyHexNext ==
    \/ /\ tr.pc = "idle"
       /\ \E start_hex \in HexValues, target_hex \in HexValues, pace \in Paces,
             nav_check \in NavChecks, encounter \in BOOLEAN :
               travel("dm", start_hex, target_hex, pace, nav_check, encounter)
    \/ travel_resolve
    \/ \E value \in Hexes : wait_for_selection(value)

----------------------------------------------------------------------------
(* day, checklist, encounter, entry, rest: the journal commands *)

MaxTemplates == 2       \* most files that match checklist_*.md

JournalCommands == {"day", "checklist", "encounter", "entry", "rest"}

JournalIdle == [pc |-> "idle", name |-> "day", user |-> "dm", templates |-> 0, sent |-> <<>>]

\* checklist: the first template answers the interaction, every other one
\* is a follow-up
ChecklistMessages(n) == [i \in 1..n |-> IF i = 1 THEN "checklist_header" ELSE "checklist"]

\* A journal command is invoked by user; n template files match
\* checklist_*.md.  The role check comes first, then the body: the
\* template is read and the journal message sent.
journal_command(name, user, n) ==
    /\ jc.pc = "idle"
    /\ jc' = IF ~has_role(user, "Dungeon Master")
             THEN [jc EXCEPT !.pc = "rejected", !.name = name, !.user = user]
             ELSE [pc |-> "done", name |-> name, user |-> user,
                   templates |-> IF name = "checklist" THEN n ELSE 1,
                   sent |-> CASE name = "day" -> <<"day_log", "forecast">>
                              [] name = "checklist" -> ChecklistMessages(n)
                              [] OTHER -> <<name>>]
    /\ UNCHANGED notGated

\* the role-gated commands, one invocation followed at a time
GNext ==
    \/ /\ jc.pc = "idle" /\ tr.pc = "idle"
       /\ \E user \in Users, start_hex \in Hexes, target_hex \in Hexes, pace \in Paces,
             nav_check \in NavChecks, encounter \in BOOLEAN :
               travel(user, start_hex, target_hex, pace, nav_check, encounter)
    \/ travel_resolve
    \/ \E value \in Hexes : wait_for_selection(value)
    \/ /\ tr.pc = "idle"
       /\ \E name \in JournalCommands, user \in Users, n \in 0..MaxTemplates :
               journal_command(name, user, n)

----------------------------------------------------------------------------
(* the spell command *)

MaxDesc == 6            \* longest rendered description
MaxSpellLimit == 7      \* largest CHARLIMIT the spell command runs with

\* str.upper and str.lower on the letters used here
upper(c) == CASE c = "a" -> "A" [] c = "b" -> "B" [] c = "p" -> "P"
              [] c = "x" -> "X" [] c = "t" -> "T" [] c = "q" -> "Q" [] OTHER -> c
lower(c) == CASE c = "A" -> "a" [] c = "B" -> "b" [] OTHER -> c

\* source.upper()
UpperStr(s) == [i \in 1..Len(s) |-> upper(s[i])]

\* str.split(): the words between runs of blanks
RECURSIVE Words(_)
Words(s) ==
    IF s = <<>> THEN <<>>
    ELSE IF Head(s) = " " THEN Words(Tail(s))
    ELSE LET stops == {i \in 1..Len(s) : s[i] = " "}
             k == IF stops = {} THEN Len(s) + 1
                  ELSE CHOOSE i \in stops : \A j \in stops : i <= j
         IN  <<SubSeq(s, 1, k - 1)>> \o Words(SubSeq(s, k, Len(s)))

\* str.capitalize()
capitalize(w) == [i \in 1..Len(w) |-> IF i = 1 THEN upper(w[i]) ELSE lower(w[i])]

\* ' '.join(words)
RECURSIVE JoinBlank(_)
JoinBlank(words) ==
    IF words = <<>> THEN <<>>
    ELSE IF Len(words) = 1 THEN Head(words)
    ELSE Head(words) \o <<" ">> \o JoinBlank(Tail(words))

\* string.capwords(name)
capwords(name) ==
    LET words == Words(name)
    IN  JoinBlank([i \in 1..Len(words) |-> capitalize(words[i])])

\* data/spells/index.json: source abbreviation -> file of that source
spells_index ==
    [k \in {<<"P">>, <<"X">>} |-> IF k = <<"P">> THEN "spells-p.json" ELSE "spells-x.json"]

\* data/spells/sources.json, in file order: source abbreviation -> the
\* names listed under it.  "Aa" is listed under X, whose file has no such
\* entry; T is listed here and is no key of the index.
spells_sources ==
    << [key |-> <<"P">>, names |-> {<<"A", "b">>, <<"A", " ", "B">>, <<"A", " ", "b">>}],
       [key |-> <<"X">>, names |-> {<<"B", "a">>, <<"A", "b">>, <<"A", "a">>}],
       [key |-> <<"T">>, names |-> {<<"B", "b">>}] >>

\* source_spells['spell'] of each file: the names of its entries
source_spells(file) ==
    IF file = "spells-p.json" THEN {<<"A", "b">>, <<"A", " ", "B">>, <<"A", " ", "b">>}
    ELSE {<<"B", "a">>, <<"A", "b">>}

\* what users type as name and as source; <<>> is a source left out
TypedNames ==
    { <<"a", "b">>, <<"a", " ", " ", "b">>, <<"A", " ", "b">>, <<" ", "b", "A">>,
      <<"a", "a">>, <<"b", "b">>, <<"b">> }
TypedSources == { <<>>, <<"p">>, <<"X">>, <<"t">>, <<"q">> }

\* the rendered description of a matched record
DescChars == {"a", NL, "-"}
Descs == SeqsUpTo(DescChars, MaxDesc)

\* the shapes a matched record can have: one the formatting pipeline
\* renders, one whose range has no 'type', one that lacks a field
Entries ==
    {[shape |-> "ok", desc |-> d] : d \in Descs}
        \cup {[shape |-> sh, desc |-> <<>>] : sh \in {"range_without_type", "missing_field"}}

Divider == <<"-", "-", "-">>

\* templates/spell-base.md filled in: a header line, the divider, the
\* description and the source line
spell_template(desc) == <<"h", NL>> \o Divider \o <<NL>> \o desc \o <<"s">>

\* Spell._get_source_file: the file, "None", or "KeyError" when the key
\* under which the name is listed is no key of the index
get_source_file(name, source) ==
    IF source = <<>> THEN
        LET hits == {i \in 1..Len(spells_sources) : name \in spells_sources[i].names}
        IN  IF hits = {} THEN "None"
            ELSE LET key == spells_sources[CHOOSE i \in hits : \A j \in hits : i <= j].key
                 IN  IF key \in DOMAIN spells_index THEN spells_index[key] ELSE "KeyError"
    ELSE IF source \in DOMAIN spells_index THEN spells_index[source]
    ELSE "None"

\* Spell._get_spell: is there an entry with the name in the file
get_spell(source_file, name) == name \in source_spells(source_file)

\* Spell.__init__(name, source), the matched record being `entry`
Spell(typed_name, typed_source, entry) ==
    LET name == capwords(typed_name)
        source == UpperStr(typed_source)
        source_file == get_source_file(name, source)
        found == source_file \notin {"None", "KeyError"} /\ get_spell(source_file, name)
        raised == \/ source_file = "KeyError"
                  \/ found /\ entry.shape # "ok"    \* UnboundLocalError or KeyError
    IN  [raised |-> raised, name |-> name, source |-> source,
         source_file |-> source_file, spell_dict |-> found,
         has_markdown |-> found /\ ~raised,
         spell_description |-> IF found /\ ~raised THEN entry.desc ELSE <<>>,
         spell_markdown |-> IF found /\ ~raised THEN spell_template(entry.desc) ELSE <<>>]

\* Spell.source_exists, Spell.spell_exists
source_exists(inst) == inst.source_file # "None"
spell_exists(inst) == inst.spell_dict

\* does split_message(content) leave its loop: a split index of 0 leaves
\* content as it was
RECURSIVE SplitReturns(_, _)
SplitReturns(content, limit) ==
    IF Len(content) <= limit THEN TRUE
    ELSE LET split_index == SplitIndex(content, limit)
         IN  split_index # 0 /\ SplitReturns(Suffix(content, split_index), limit)

\* the parts split_message(content) returns, when it returns
RECURSIVE SplitParts(_, _)
SplitParts(content, limit) ==
    IF Len(content) <= limit THEN <<content>>
    ELSE LET split_index == SplitIndex(content, limit)
         IN  <<Prefix(content, split_index)>> \o SplitParts(Suffix(content, split_index), limit)

\* str.split('---')
RECURSIVE SplitDivider(_)
SplitDivider(text) ==
    LET hits == {i \in 1..(Len(text) - 2) : SubSeq(text, i, i + 2) = Divider}
    IN  IF hits = {} THEN <<text>>
        ELSE LET k == CHOOSE i \in hits : \A j \in hits : i <= j
             IN  <<SubSeq(text, 1, k - 1)>> \o SplitDivider(SubSeq(text, k + 3, Len(text)))

Message(kind, via, ephemeral, content) ==
    [kind |-> kind, via |-> via, ephemeral |-> ephemeral, content |-> content]

\* for part in parts: a part equal to parts[0] goes out as the response, any
\* other part as a follow-up; a second response raises InteractionResponded
RECURSIVE SendParts(_, _, _)
SendParts(parts, first, out) ==
    IF parts = <<>> THEN [sent |-> out, raised |-> FALSE]
    ELSE IF Head(parts) = first
    THEN IF \E i \in 1..Len(out) : out[i].via = "response"
         THEN [sent |-> out, raised |-> TRUE]
         ELSE SendParts(Tail(parts), first,
                        Append(out, Message("part", "response", FALSE, Head(parts))))
    ELSE SendParts(Tail(parts), first,
                   Append(out, Message("part", "followup", FALSE, Head(parts))))

SpellIdle ==
    [pc |-> "idle", name |-> <<>>, source |-> <<>>, entry |-> [shape |-> "ok", desc |-> <<>>],
     limit |-> 1, raised |-> FALSE, spell_dict |-> FALSE, spell_markdown |-> <<>>,
     route |-> "none", parts |-> <<>>, sent |-> <<>>]

\* the /spell command is invoked: Spell.__init__ looks the name up, and
\* the command answers at once when there is no record to render
spell(name, source) ==
    /\ sp.pc = "idle"
    /\ LET inst == Spell(name, source, SpellIdle.entry)
           s0 == [SpellIdle EXCEPT !.name = name, !.source = source,
                                   !.spell_dict = inst.spell_dict]
       IN  sp' =
           IF inst.spell_dict THEN [s0 EXCEPT !.pc = "matched"]
           ELSE IF inst.raised THEN [s0 EXCEPT !.pc = "crashed", !.raised = TRUE]
           ELSE IF source # <<>> /\ ~source_exists(inst) THEN
               [s0 EXCEPT !.pc = "done",
                          !.sent = <<Message("source_not_found", "response", TRUE, source)>>]
           ELSE \* ~spell_exists(inst)
               [s0 EXCEPT !.pc = "done",
                          !.sent = <<Message("spell_not_found", "response", TRUE, name)>>]
    /\ UNCHANGED notSpell

\* a record is matched: Spell.__init__ formats `entry`, the record the
\* source file holds, and the command sends the document with
\* CHARLIMIT = limit
spell_render(entry, limit) ==
    /\ sp.pc = "matched"
    /\ LET inst == Spell(sp.name, sp.source, entry)
           s0 == [sp EXCEPT !.entry = entry, !.limit = limit, !.raised = inst.raised,
                            !.spell_markdown = inst.spell_markdown]
       IN  sp' =
           IF inst.raised THEN [s0 EXCEPT !.pc = "crashed"]
           ELSE IF ~inst.has_markdown THEN
               [s0 EXCEPT !.pc = "done", !.route = "raw",
                          !.sent = <<Message("raw_data", "response", FALSE, inst.name)>>]
           ELSE IF Len(inst.spell_markdown) <= limit THEN
               [s0 EXCEPT !.pc = "done", !.route = "whole",
                          !.sent = <<Message("document", "response", FALSE,
                                             inst.spell_markdown)>>]
           ELSE IF Len(inst.spell_description) > limit THEN
               IF ~SplitReturns(inst.spell_markdown, limit)
               THEN [s0 EXCEPT !.pc = "hung", !.route = "split_message"]
               ELSE LET parts == SplitParts(inst.spell_markdown, limit)
                        out == SendParts(parts, parts[1], <<>>)
                    IN  [s0 EXCEPT !.pc = IF out.raised THEN "crashed" ELSE "done",
                                   !.route = "split_message",
                                   !.parts = parts, !.sent = out.sent]
           ELSE LET parts == SplitDivider(inst.spell_markdown)
                    out == SendParts(parts, parts[1], <<>>)
                IN  [s0 EXCEPT !.pc = IF out.raised THEN "crashed" ELSE "done",
                               !.route = "divider",
                               !.parts = parts, !.sent = out.sent]
    /\ UNCHANGED notSpell

PNext ==
    \/ \E name \in TypedNames, source \in TypedSources : spell(name, source)
    \/ /\ sp.pc = "matched"
       /\ \E entry \in Entries, limit \in 1..MaxSpellLimit : spell_render(entry, limit)

----------------------------------------------------------------------------
(* the AI companion *)

MaxChatLimit == 3       \* largest CHARLIMIT the AI companion runs with

\* config['azureopenai']: the two fallback texts
OPENAIFILTERRESPONSE == <<"filtered">>
OPENAIERRORRESPONSE == <<"error">>

FromInkwell == "From Inkwell: "
Inkwell == "Inkwell: "

\* what str.lstrip removes for each prefix: every leading piece of text
\* made only of characters of the prefix
FromInkwellSet == {FromInkwell, Inkwell, "F", "r", "o", "m", " ", "I", "n", "k", "w", "e", "l", ":"}
InkwellSet == {Inkwell, "I", "n", "k", "w", "e", "l", ":", " "}

RECURSIVE LStripSet(_, _)
LStripSet(text, set) ==
    IF text # <<>> /\ Head(text) \in set THEN LStripSet(Tail(text), set) ELSE text

\* the texts the model returns
Completions ==
    { <<"H", "i">>,
      <<FromInkwell, "H", "i">>,
      <<Inkwell, "H", "i">>,
      <<FromInkwell, "o", "k">>,
      <<Inkwell, "w", "e", "l", "l">>,
      <<"H", "i", NL, "y", "a">>,
      <<"a", NL, "b", NL, "a">>,
      <<"a", "b", "a", "b">> }

\* how client.chat.completions.create ends: with a completion, with a
\* content-policy rejection, or with any other error
Calls ==
    {[kind |-> "ok", text |-> c] : c \in Completions}
        \cup {[kind |-> k, text |-> <<>>] : k \in {"content_filter", "error"}}

\* send_prompt.  When create raises, `response` was never assigned, and
\* the except branch reads response.code: the handler of the exception
\* raises itself.
send_prompt(call) ==
    IF call.kind # "ok" THEN [raised |-> TRUE, completion |-> <<>>]
    ELSE LET completion == call.text
         IN  [raised |-> FALSE,
              completion |->
                  IF completion # <<>> /\ Head(completion) = FromInkwell
                  THEN LStripSet(completion, FromInkwellSet)
                  ELSE IF completion # <<>> /\ Head(completion) = Inkwell
                  THEN LStripSet(completion, InkwellSet)
                  ELSE completion]

\* for part in parts: a part equal to parts[0] is sent to the channel and
\* becomes first_message, any other part is a reply to first_message
SendChat(parts) ==
    [i \in 1..Len(parts) |->
        Message("part", IF parts[i] = parts[1] THEN "channel" ELSE "reply", FALSE, parts[i])]

Authors == Users \cup {"bot"}
Channels == {"journal", "other"}

\* message.reference: none, a bot message, another user's message, or a
\* message that does not resolve
Shapes == {"plain", "reply_to_bot", "reply_to_other", "reply_unresolved"}

ChatIdle ==
    [pc |-> "idle", author |-> "bot", channel |-> "other", shape |-> "plain",
     mentions |-> FALSE, call |-> [kind |-> "error", text |-> <<>>], limit |-> 1,
     forwarded |-> FALSE, context |-> FALSE, calls |-> 0, completion |-> <<>>,
     sent |-> <<>>, echoes |-> 0]

\* the AI companion answers: send_prompt, then the reply in one message
\* or in parts
Chatbot(c, with_context) ==
    LET r == send_prompt(c.call)
        c1 == [c EXCEPT !.forwarded = TRUE, !.context = with_context, !.calls = @ + 1,
                        !.completion = r.completion]
    IN  IF r.raised THEN [c1 EXCEPT !.pc = "crashed"]
        ELSE IF Len(r.completion) <= c.limit
        THEN [c1 EXCEPT !.pc = "done",
                        !.sent = @ \o <<Message("whole", "channel", FALSE, r.completion)>>]
        ELSE IF ~SplitReturns(r.completion, c.limit) THEN [c1 EXCEPT !.pc = "hung"]
        ELSE [c1 EXCEPT !.pc = "done",
                        !.sent = @ \o SendChat(SplitParts(r.completion, c.limit))]

\* if message.author != bot.user and message.reference:
Referenced(author, shape) == author # "bot" /\ shape # "plain"

\* elif bot.user.mentioned_in(message) and message.channel.id not in
\* journal_channelids: tested only when the if before it was false
MentionedAlso(referenced, mentions, channel) == mentions /\ channel # "journal"
Mentioned(referenced, mentions, channel) ==
    ~referenced /\ mentions /\ channel # "journal"

\* on_message for a message that is not a reply to a journal post: who
\* wrote it, where, what it replies to, whether it mentions the bot; how
\* the completion call would end; CHARLIMIT = limit
on_message_chat(author, channel, shape, mentions, call, limit) ==
    /\ ai.pc = "idle"
    /\ LET c == [ChatIdle EXCEPT !.author = author, !.channel = channel, !.shape = shape,
                                 !.mentions = mentions, !.call = call, !.limit = limit]
           referenced == Referenced(author, shape)
           replied == IF ~referenced THEN c
                      ELSE IF shape = "reply_to_bot"
                      THEN IF channel = "journal" THEN [c EXCEPT !.pc = "note"]
                           ELSE Chatbot(c, TRUE)
                      ELSE [c EXCEPT !.pc = "returned"]
       IN  ai' =
           IF SentByBot(author) THEN [c EXCEPT !.pc = "ignored"]
           ELSE IF replied.pc \in {"crashed", "hung"} THEN replied
           ELSE IF Mentioned(referenced, mentions, channel) THEN Chatbot(replied, FALSE)
           ELSE IF referenced THEN replied
           ELSE [c EXCEPT !.pc = "returned"]
    /\ UNCHANGED notChat

\* A message the bot has sent comes back to on_message as an event of its
\* own: its author is the bot, a part after the first is a reply to the
\* bot's first part, and its text may mention the bot.
on_message_own(mentions) ==
    /\ ai.pc = "done"
    /\ ai.echoes < Len(ai.sent)
    /\ LET m == ai.sent[ai.echoes + 1]
           shape == IF m.via = "reply" THEN "reply_to_bot" ELSE "plain"
           c == [ai EXCEPT !.echoes = @ + 1]
       IN  ai' =
           IF SentByBot("bot") THEN c
           ELSE IF Mentioned(Referenced("bot", shape), mentions, ai.channel)
           THEN [c EXCEPT !.calls = @ + 1]
           ELSE c
    /\ UNCHANGED notChat

ANext ==
    \/ \E author \in Authors, channel \in Channels, shape \in Shapes, mentions \in BOOLEAN,
          call \in Calls, limit \in 1..MaxChatLimit :
           on_message_chat(author, channel, shape, mentions, call, limit)
    \/ \E mentions \in BOOLEAN : on_message_own(mentions)

----------------------------------------------------------------------------
(* _remove_description_decorators (modules/spells.py): descriptions are     *)
(* sequences of characters                                                  *)

MaxDecor == 5           \* longest description drawn from DecorChars

Lowercase == {"a", "b", "c", "d", "e", "f", "g", "h", "i", "j", "k", "l", "m",
              "n", "o", "p", "q", "r", "s", "t", "u", "v", "w", "x", "y", "z"}

DecorChars == {"{", "@", "a", " ", "|", "}"}

\* the character at position i of d, "" past the end
Ch(d, i) == IF i >= 1 /\ i <= Len(d) THEN d[i] ELSE ""

\* the literal lit stands at position i of d
At(d, i, lit) == i + Len(lit) - 1 <= Len(d) /\ SubSeq(d, i, i + Len(lit) - 1) = lit

\* how many characters of S follow each other in d from position i on
RECURSIVE Run(_, _, _)
Run(d, i, S) == IF i <= Len(d) /\ d[i] \in S THEN 1 + Run(d, i + 1, S) ELSE 0

\* how many characters other than the newline follow each other from position i on
RECURSIVE RunDot(_, _)
RunDot(d, i) == IF i <= Len(d) /\ d[i] # NL THEN 1 + RunDot(d, i + 1) ELSE 0

\* [0-9]{1,2} followed by the character lit: the position of lit, 0 for no match
DigitsThen(d, i, lit) ==
    LET n == Run(d, i, Digits)
    IN  IF n \in {1, 2} /\ Ch(d, i + n) = lit THEN i + n ELSE 0

ScaledamageTag == <<"{", "@", "s", "c", "a", "l", "e", "d", "a", "m", "a", "g">>

\* r'\{@scaledamage+ [0-9]d[0-9]{1,2}\|[0-9]{1,2}-[0-9]{1,2}\|' matched at
\* position i: the position of its last character, 0 for no match
MatchScaledamage(d, i) ==
    LET es == Run(d, i + Len(ScaledamageTag), {"e"})
        p1 == i + Len(ScaledamageTag) + es          \* the blank
        p2 == DigitsThen(d, p1 + 3, "|")
        p3 == IF p2 = 0 THEN 0 ELSE DigitsThen(d, p2 + 1, "-")
        p4 == IF p3 = 0 THEN 0 ELSE DigitsThen(d, p3 + 1, "|")
    IN  IF /\ At(d, i, ScaledamageTag) /\ es >= 1 /\ Ch(d, p1) = " "
           /\ Ch(d, p1 + 1) \in Digits /\ Ch(d, p1 + 2) = "d"
        THEN p4 ELSE 0

\* r'\{@[a-z]+ ' matched at position i
MatchTag(d, i) ==
    LET n == Run(d, i + 2, Lowercase)
    IN  IF Ch(d, i) = "{" /\ Ch(d, i + 1) = "@" /\ n >= 1 /\ Ch(d, i + 2 + n) = " "
        THEN i + 2 + n ELSE 0

\* r'\|.+}' matched at position i: greedy, up to the last brace of the line
MatchPipe(d, i) ==
    LET braces == {j \in (i + 2)..(i + RunDot(d, i + 1)) : d[j] = "}"}
    IN  IF Ch(d, i) = "|" /\ braces # {}
        THEN CHOOSE j \in braces : \A k \in braces : k <= j
        ELSE 0

\* the pattern named k matched at position i; the last one is '}'
Match(k, d, i) ==
    CASE k = "scaledamage" -> MatchScaledamage(d, i)
      [] k = "tag" -> MatchTag(d, i)
      [] k = "pipe" -> MatchPipe(d, i)
      [] OTHER -> IF Ch(d, i) = "}" THEN i ELSE 0

\* re.sub(pattern, '', d) from position i on: the matches are found left to
\* right and do not overlap
RECURSIVE ReSub(_, _, _)
ReSub(k, d, i) ==
    IF i > Len(d) THEN <<>>
    ELSE IF Match(k, d, i) > 0 THEN ReSub(k, d, Match(k, d, i) + 1)
    ELSE <<d[i]>> \o ReSub(k, d, i + 1)

ChanceFragment == <<"|", "|", "|", "R", "a", "n", "d", "o", "m", " ", "r", "e", "a", "d", "i", "n", "g", "!", "|", "R", "e", "g", "u", "l", "a", "r", " ", "r", "e", "a", "d", "i", "n", "g", "}">>
Percent == <<" ", "p", "e", "r", "c", "e", "n", "t">>

\* d.replace(old, new) from position i on
RECURSIVE Replace(_, _, _, _)
Replace(d, old, new, i) ==
    IF i > Len(d) THEN <<>>
    ELSE IF At(d, i, old) THEN new \o Replace(d, old, new, i + Len(old))
    ELSE <<d[i]>> \o Replace(d, old, new, i + 1)

\* _remove_description_decorators: the five substitutions in their order
remove_description_decorators(description) ==
    LET d1 == ReSub("scaledamage", description, 1)
        d2 == ReSub("tag", d1, 1)
        d3 == Replace(d2, ChanceFragment, Percent, 1)
        d4 == ReSub("pipe", d3, 1)
    IN  ReSub("brace", d4, 1)

Damage2d6 == <<"{", "@", "d", "a", "m", "a", "g", "e", " ", "2", "d", "6", "}">>

\* descriptions as the rule files hold them
DecorExamples ==
    { Damage2d6,
      <<"a", " ", "{", "@", "d", "a", "m", "a", "g", "e", " ", "2", "d", "6", "}", " ", "b">>,
      <<"{", "@", "i", " ", "x", "|", "y", "}", " ", "{", "@", "d", "a", "m", "a", "g", "e", " ", "2", "d", "6", "}">>,
      <<"{", "@", "s", "c", "a", "l", "e", "d", "a", "m", "a", "g", "e", " ", "2", "d", "6", "|", "3", "-", "9", "|", "1", "d", "6", "}">>,
      <<"{", "@", "c", "h", "a", "n", "c", "e", " ", "5", "|", "|", "|", "R", "a", "n", "d", "o", "m", " ", "r", "e", "a", "d", "i", "n", "g", "!", "|", "R", "e", "g", "u", "l", "a", "r", " ", "r", "e", "a", "d", "i", "n", "g", "}">>,
      <<"{", "@", "i", " ", "x", "|", "y", NL, "z", "}">> }

Descriptions == SeqsUpTo(DecorChars, MaxDecor) \cup DecorExamples

DecoratorsIdle == [pc |-> "idle", description |-> <<>>, once |-> <<>>, twice |-> <<>>]

\* a description is passed through _remove_description_decorators
strip_description(description) ==
    /\ de.pc = "idle"
    /\ de' = [pc |-> "stripped", description |-> description,
              once |-> remove_description_decorators(description), twice |-> <<>>]
    /\ UNCHANGED notDecorators

\* the result is passed through it a second time
strip_again ==
    /\ de.pc = "stripped"
    /\ de' = [de EXCEPT !.pc = "restripped",
                        !.twice = remove_description_decorators(de.once)]
    /\ UNCHANGED notDecorators

DNext ==
    \/ /\ de.pc = "idle"
       /\ \E description \in Descriptions : strip_description(description)
    \/ strip_again

----------------------------------------------------------------------------
(* The event loop: a travel invocation next to other events.  Every handler *)
(* is a coroutine of one single-threaded loop; an action is what a handler  *)
(* does between two of its awaits.                                          *)

BlockingNever(pc) == FALSE
BlockingWhileSelecting(pc) == pc \in {"sleep", "select"}

\* time.sleep(5.0) is not awaited: the thread of the loop stays inside the
\* travel handler until the call returns.  await view.wait_for_selection()
\* hands the thread back to the loop.
Blocking(pc) == pc = "sleep"

\* what arrives next to the travel invocation
LoopChecks == {14, 15}
LoopPaces == {"normal", "cautious"}
LoopDice == { <<"1", "d", "1">> }
LoopUsers == {"u1"}
LoopNotes == { <<"hi">> }
LoopEmojis == {"heart"}

\* the steps that go on from a step already taken
LoopProgress ==
    \/ \E s \in Slots : on_message_edit(s)
    \/ \E s \in Slots : on_message_delete(s)
    \/ message_update

\* the travel invocation, and the handlers of a reply, of a reaction and of
\* the roll command, which take a step only when the loop has the thread
LoopNext ==
    \/ /\ tr.pc = "idle"
       /\ \E start_hex \in Hexes, pace \in LoopPaces, nav_check \in LoopChecks :
               travel("dm", start_hex, "road", pace, nav_check, FALSE)
    \/ travel_resolve
    \/ \E value \in Hexes : wait_for_selection(value)
    \/ \E s \in Slots, u \in LoopUsers, note \in LoopNotes :
           ~Blocking(tr.pc) /\ on_message(s, u, note)
    \/ \E s \in Slots : ~Blocking(tr.pc) /\ on_message_edit(s)
    \/ \E s \in Slots : ~Blocking(tr.pc) /\ on_message_delete(s)
    \/ \E s \in Slots, u \in LoopUsers, e \in LoopEmojis :
           ~Blocking(tr.pc) /\ on_reaction_add(s, u, e, "post")
    \/ ~Blocking(tr.pc) /\ message_update
    \/ \E dice \in LoopDice : ~Blocking(tr.pc) /\ roll(dice, <<>>)

----------------------------------------------------------------------------
(* Specifications: one per subsystem, the others idle *)

JournalInit ==
    /\ body \in InitBodies
    /\ cached = body
    /\ gateway = <<>>
    /\ reactors \in InitReactors
    /\ h = [s \in Slots |-> Idle]
    /\ handled = 0
    /\ sm = SplitIdle /\ rl = RollIdle /\ tr = TravelIdle
    /\ jc = JournalIdle /\ sp = SpellIdle /\ ai = ChatIdle /\ de = DecoratorsIdle

\* no journal post is involved
CommandInit ==
    /\ body = <<>> /\ cached = <<>> /\ gateway = <<>>
    /\ reactors = [e \in Emojis |-> {}]
    /\ h = [s \in Slots |-> Idle]
    /\ handled = 0
    /\ sm = SplitIdle /\ rl = RollIdle /\ tr = TravelIdle
    /\ jc = JournalIdle /\ sp = SpellIdle /\ ai = ChatIdle /\ de = DecoratorsIdle

JournalSpec == JournalInit /\ [][JNext]_vars
RaceSpec == JournalInit /\ [][RaceNext]_vars
SplitSpec == CommandInit /\ [][SNext]_vars
RollSpec == CommandInit /\ [][RNext]_vars
TravelSpec == CommandInit /\ [][TNext]_vars
AnyHexSpec == CommandInit /\ [][AnyHexNext]_vars
LoopSpec == CommandInit /\ [][LoopNext]_vars

\* The loop runs every coroutine that is ready: a handler whose await has
\* completed takes its next step, and time.sleep returns.  Nothing makes
\* the user answer the select menu.
LoopFairSpec ==
    /\ CommandInit /\ [][LoopNext]_vars
    /\ WF_vars(travel_resolve)
    /\ WF_vars(~Blocking(tr.pc) /\ LoopProgress)
GatedSpec == CommandInit /\ [][GNext]_vars
SpellSpec == CommandInit /\ [][PNext]_vars
ChatSpec == CommandInit /\ [][ANext]_vars
DecoratorsSpec == CommandInit /\ [][DNext]_vars

----------------------------------------------------------------------------
(* Properties of the journal reply-note system and the checklist tracker *)

\* '\n'.join(lines)
RECURSIVE JoinNL(_)
JoinNL(lines) ==
    IF lines = <<>> THEN <<>>
    ELSE IF Len(lines) = 1 THEN Head(lines)
    ELSE Head(lines) \o <<NL>> \o JoinNL(Tail(lines))

\* the body with every line removed that holds the mention and "Personal Note"
WithoutNotesOf(content, user) ==
    JoinNL(SelectSeq(SplitNL(content),
                     LAMBDA line : ~(Contains(line, user) /\ Contains(line, PersonalNote))))

IsClear(s) == h[s].kind = "msg" /\ h[s].note = <<"!clear">>

\* C1: for a reply "!clear" by user U, the body the post is edited to is
\* exactly the fetched body without the lines that hold both U's mention
\* and "Personal Note", nothing added; if no line matches, no edit is made.
C1_ClearRemovesExactlyOwnNotes ==
    \A s \in Slots :
        IsClear(s) =>
            /\ h[s].new = WithoutNotesOf(h[s].orig, Mention(h[s].user))
            /\ (h[s].new = h[s].orig => h[s].edits = 0 /\ h[s].pc # "edit")
            /\ (h[s].pc \in {"delete", "done"} => body = h[s].new)

\* C2: every reply to the bot's journal post is deleted by the time its
\* handler has finished, whatever the reply is and whoever wrote it.
C2_ReplyAlwaysDeleted ==
    \A s \in Slots : h[s].kind = "msg" /\ Finished(s) => h[s].deleted

IsDMCommand(note) == note = <<"!clearall">> \/ (Len(note) >= 1 /\ note[1] = "!replyas")

\* C3: a "!clearall" or "!replyas ..." reply from a user without the
\* Dungeon Master role never changes the post: its handler issues no edit
\* and the body stays what it was when the reply arrived.
C3_NonDMCommandLeavesBody ==
    \A s \in Slots :
        (h[s].kind = "msg" /\ IsDMCommand(h[s].note) /\ h[s].user \notin DungeonMasters) =>
            /\ h[s].edits = 0
            /\ h[s].pc # "edit"
            /\ body = h[s].before

\* a non-DM "!replyas" was handled on a post that carries a personal note
C3_Witness ==
    \E s \in Slots :
        /\ h[s].kind = "msg" /\ h[s].pc = "returned"
        /\ h[s].note[1] = "!replyas" /\ h[s].user \notin DungeonMasters
        /\ Contains(body, PersonalNote)

\* the lines "> <emoji> <display name>", one per user, each after a newline
RECURSIVE ReactionLines(_, _)
ReactionLines(e, us) ==
    IF us = <<>> THEN <<>>
    ELSE <<NL>> \o ReactionLine(e, Head(us)) \o ReactionLines(e, Tail(us))

\* C4: when a check or cross mark is added to a checklist post, then after
\* the handler the body is the body before the event plus one line for each
\* user who was reacting with the emoji, and their reactions are removed;
\* for any other emoji the reaction is removed and the body is unchanged.
C4_OneLinePerReactingUser ==
    \A s \in Slots :
        (h[s].kind = "react" /\ h[s].pc = "done" /\ Contains(h[s].before, ChecklistMarker)) =>
            IF h[s].emoji \in {CheckMark, CrossMark}
            THEN /\ body = h[s].before \o ReactionLines(h[s].emoji, h[s].users)
                 /\ \A i \in 1..Len(h[s].users) : h[s].users[i] \notin reactors[h[s].emoji]
            ELSE /\ body = h[s].before
                 /\ h[s].user \notin reactors[h[s].emoji]

----------------------------------------------------------------------------
(* Properties of split_message *)

RECURSIVE Concat(_)
Concat(parts) == IF parts = <<>> THEN <<>> ELSE Head(parts) \o Concat(Tail(parts))

\* C5: the chunks split_message returns are none longer than the limit and
\* give back the text when concatenated in order; a text within the limit
\* is returned as the single chunk.  (Stated of every turn of the loop too:
\* the parts so far followed by the remainder are the text.)
C5_ChunksWithinLimitAndRejoin ==
    /\ sm.pc \in {"loop", "returned"} =>
            /\ \A i \in 1..Len(sm.parts) : Len(sm.parts[i]) <= sm.limit
            /\ Concat(sm.parts) \o (IF sm.pc = "loop" THEN sm.content ELSE <<>>) = sm.message
    /\ (sm.pc = "returned" /\ Len(sm.message) <= sm.limit) => sm.parts = <<sm.message>>

\* a text was returned in three chunks, cut once at a newline and once at
\* the limit
C5_Witness ==
    /\ sm.pc = "returned" /\ Len(sm.parts) = 3
    /\ \E i \in 1..2 : Len(sm.parts[i]) < sm.limit /\ sm.parts[i + 1][1] = NL
    /\ \E i \in 1..2 : Len(sm.parts[i]) = sm.limit

----------------------------------------------------------------------------
(* Properties of travel *)

TravelDecided == tr.pc \in {"select", "done"}
FailedOutright == tr.pace = "cautious" /\ tr.slow_roll = 1

\* C6: the effective DC is the starting hex's DC, +5 for "fast", -5 for
\* "cautious"; unless travel failed outright on the cautious roll, a check
\* >= DC is a success that ends in the target hex with no menu shown, and
\* a check < DC is "lost" with the ending hex the one picked in the menu.
C6_NavigationAgainstEffectiveDC ==
    TravelDecided =>
        LET dc == DCOf(tr.start_hex)
                  + (IF tr.pace = "fast" THEN 5 ELSE IF tr.pace = "cautious" THEN 0 - 5 ELSE 0)
            menus == {i \in 1..Len(tr.sent) : tr.sent[i] = "lost_menu"}
        IN  /\ tr.start_dc = dc
            /\ ~FailedOutright =>
                  IF tr.nav_check >= dc
                  THEN /\ tr.pc = "done" /\ tr.navigate_result = Success
                       /\ tr.end_hex = tr.target_hex /\ menus = {}
                  ELSE /\ tr.navigate_result = Lost /\ menus # {}
                       /\ (tr.pc = "done" => tr.end_hex = tr.selected)

\* a cautious party got lost and ended in a picked hex that is not the target
C6_Witness ==
    /\ tr.pc = "done" /\ tr.pace = "cautious" /\ tr.slow_roll # 1
    /\ tr.navigate_result = Lost /\ tr.end_hex = tr.selected /\ tr.end_hex # tr.target_hex
    /\ tr.nav_check = tr.start_dc - 1

\* C7: survival points are "N/A" whenever the ending hex's DC is 0, else
\* "None" whenever nav_check <= that DC, else the integer nav_check - DC;
\* never a negative number and never 0.
C7_SurvivalPointsReported ==
    tr.pc = "done" =>
        /\ tr.end_dc = DCOf(tr.end_hex)
        /\ tr.survival_points =
             (IF tr.end_dc = 0 THEN [kind |-> "N/A", n |-> 0]
              ELSE IF tr.nav_check <= tr.end_dc THEN [kind |-> "None", n |-> 0]
              ELSE [kind |-> "int", n |-> tr.nav_check - tr.end_dc])
        /\ (tr.survival_points.kind = "int" => tr.survival_points.n > 0)

\* a check of 0 or less ended in a hex of DC 0
C7_Witness ==
    /\ tr.pc = "done" /\ tr.end_dc = 0 /\ tr.nav_check <= 0
    /\ tr.survival_points.kind = "N/A"

----------------------------------------------------------------------------
(* Properties of roll *)

\* the shapes of the parameters, as the documentation words them
IsNdN(s) ==
    \E i \in 2..(Len(s) - 1) : s[i] = "d" /\ \A j \in (1..Len(s)) \ {i} : s[j] \in Digits
IsSignedNumber(s) ==
    Len(s) >= 2 /\ s[1] \in {"+", "-"} /\ \A j \in 2..Len(s) : s[j] \in Digits
IsNdNWithModifier(s) ==
    \E i \in 2..(Len(s) - 3), k \in 4..(Len(s) - 1) :
        /\ i + 1 < k /\ s[i] = "d" /\ s[k] \in {"+", "-"}
        /\ \A j \in (1..Len(s)) \ {i, k} : s[j] \in Digits

\* the number a string of digits writes
RECURSIVE Decimal(_)
Decimal(s) ==
    IF s = <<>> THEN 0
    ELSE LET RECURSIVE Pow10(_)
             Pow10(n) == IF n = 0 THEN 1 ELSE 10 * Pow10(n - 1)
         IN  DigitValue(Head(s)) * Pow10(Len(s) - 1) + Decimal(Tail(s))

DPos(s) == CHOOSE i \in 1..Len(s) : s[i] = "d"
N == Decimal(SubSeq(rl.dice, 1, DPos(rl.dice) - 1))
M == Decimal(SubSeq(rl.dice, DPos(rl.dice) + 1, Len(rl.dice)))

Accepted ==
    /\ rl.pc # "idle" /\ IsNdN(rl.dice)
    /\ (rl.modifier = <<>> \/ IsSignedNumber(rl.modifier))
\* a die has a face, unless no die is rolled
Rollable == M >= 1 \/ N = 0

\* C8: an accepted roll of N dice with M faces reports exactly N values,
\* each in 1..M; without a modifier the total is shown when N > 1 and is
\* the sum of the values, and no total is shown when N = 1.
C8_RollValuesAndSum ==
    (Accepted /\ Rollable) =>
        /\ rl.pc = "done" /\ Len(rl.sent) = 1 /\ rl.sent[1].kind = "result"
        /\ Len(rl.sent[1].values) = N
        /\ \A i \in 1..Len(rl.sent[1].values) : rl.sent[1].values[i] \in 1..M
        /\ rl.modifier = <<>> =>
              /\ (N > 1 => rl.sent[1].has_total /\ rl.sent[1].total = Sum(rl.sent[1].values))
              /\ (N = 1 => ~rl.sent[1].has_total)

\* three dice were rolled without a modifier and did not all show the same
C8_Witness ==
    /\ Accepted /\ rl.modifier = <<>> /\ N = 3 /\ rl.pc = "done"
    /\ rl.sent[1].values[1] # rl.sent[1].values[2]
    /\ rl.sent[1].has_total

\* C9: with a valid modifier +K or -K the total shown is the sum of the
\* values plus K, or minus K, for any number of dice, one included.
C9_TotalWithModifier ==
    (Accepted /\ Rollable /\ rl.modifier # <<>>) =>
        LET K == Decimal(Tail(rl.modifier)) IN
        /\ rl.pc = "done" /\ Len(rl.sent) = 1 /\ rl.sent[1].kind = "result"
        /\ rl.sent[1].has_total /\ rl.sent[1].with_modifier
        /\ rl.sent[1].total = (IF rl.modifier[1] = "+" THEN Sum(rl.sent[1].values) + K
                               ELSE Sum(rl.sent[1].values) - K)

\* one die with the modifier -2
C9_Witness ==
    /\ Accepted /\ N = 1 /\ rl.pc = "done" /\ rl.modifier = <<"-", "2">>
    /\ rl.sent[1].total = rl.sent[1].values[1] - 2

\* C10: a dice string that is not "digits d digits", or a supplied modifier
\* that is not "+ or -, digits", gets one private format-error message and
\* no random draw; a dice string of the shape "digits d digits +/- digits"
\* gets the hint that the modifier has its own parameter.
C10_FormatErrors ==
    (rl.pc # "idle" /\ (~IsNdN(rl.dice) \/ (rl.modifier # <<>> /\ ~IsSignedNumber(rl.modifier)))) =>
        /\ rl.pc = "done" /\ Len(rl.sent) = 1
        /\ rl.sent[1].kind = (IF ~IsNdN(rl.dice) THEN "invalid_dice" ELSE "invalid_modifier")
        /\ rl.sent[1].ephemeral
        /\ rl.draws = 0 /\ rl.sent[1].values = <<>>
        /\ (IsNdNWithModifier(rl.dice) => rl.sent[1].flagged)

\* "1d2+1" as the dice string was answered with the hint
C10_Witness ==
    /\ rl.pc = "done" /\ rl.dice = <<"1", "d", "2", "+", "1">>
    /\ rl.sent[1].kind = "invalid_dice" /\ rl.sent[1].flagged

----------------------------------------------------------------------------
(* roll: one message per invocation *)

\* C11: every invocation of roll, whatever the dice string and the
\* modifier, leaves exactly one outbound message.
C11_ExactlyOneMessage == rl.pc # "idle" => Len(rl.sent) = 1

----------------------------------------------------------------------------
(* on_message: what a note appends *)

OrdinaryNote(note) ==
    /\ note # <<"!clear">> /\ note # <<"!clearall">>
    /\ ~(Len(note) >= 1 /\ note[1] = "!replyas")

ReplyAsNote(note) == Len(note) >= 2 /\ note[1] = "!replyas" /\ note[2] = " "

\* the emoji of the profile configured for user u, nothing when there is none
ProfileEmoji(u) ==
    IF \E i \in 1..Len(characters_dict) : characters_dict[i].id = u
    THEN <<(CHOOSE e \in {characters_dict[i].emoji : i \in {j \in 1..Len(characters_dict) :
                                                     characters_dict[j].id = u}} : TRUE)>>
    ELSE <<>>

Ended(s) == h[s].pc \in {"done", "returned", "crashed"}

\* C17: once the handler of an ordinary reply to a journal post has ended,
\* it has edited the post once, to the earlier content followed by one line
\* "> **Personal Note** <emoji> <mention> <reply>", the emoji being there
\* exactly when the user has a profile.
C17_OrdinaryNoteAppended ==
    \A s \in Slots :
        (h[s].kind = "msg" /\ OrdinaryNote(h[s].note) /\ Ended(s)) =>
            /\ h[s].edits = 1
            /\ h[s].new = h[s].before \o <<NL>> \o <<"> **", PersonalNote, "** ">>
                              \o ProfileEmoji(h[s].user)
                              \o <<" ", Mention(h[s].user), " ">> \o h[s].note

\* C18: when a Dungeon Master's "!replyas <text>" has appended its line,
\* the line is "> **Personal Note** <emoji> " followed by <text>, the reply
\* without its leading "!replyas " and with every later character kept.
C18_ReplyAsKeepsText ==
    \A s \in Slots :
        (h[s].kind = "msg" /\ ReplyAsNote(h[s].note) /\ h[s].user \in DungeonMasters
            /\ h[s].edits = 1) =>
            \E i \in 1..Len(characters_dict) :
                h[s].new = h[s].before \o <<NL>>
                              \o <<"> **", PersonalNote, "** ", characters_dict[i].emoji, " ">>
                              \o SubSeq(h[s].note, 3, Len(h[s].note))

----------------------------------------------------------------------------
(* the role-gated commands *)

\* C19: an invocation of day, checklist, travel, encounter, entry or rest
\* by a user without the "Dungeon Master" role is rejected before the body
\* runs: no template is read, no message is sent, no die is rolled and no
\* select menu is shown.
C19_NonDMRejected ==
    /\ (jc.pc # "idle" /\ jc.user \notin DungeonMasters) =>
            jc.pc = "rejected" /\ jc.templates = 0 /\ jc.sent = <<>>
    /\ (tr.pc # "idle" /\ tr.user \notin DungeonMasters) =>
            /\ tr.pc = "rejected" /\ tr.sent = <<>>
            /\ tr.slow_roll = 0 /\ tr.selected = ""

C19_Witness == tr.pc = "rejected" /\ tr.user = "u1" /\ tr.sent = <<>>

----------------------------------------------------------------------------
(* the spell command *)

Reported(kind, content) ==
    \E i \in 1..Len(sp.sent) : sp.sent[i].kind = kind /\ sp.sent[i].content = content

ReportedKind(kind) == \E i \in 1..Len(sp.sent) : sp.sent[i].kind = kind

\* the supplied source is no key of the index, once upper-cased
SourceUnknown == sp.source # <<>> /\ UpperStr(sp.source) \notin DOMAIN spells_index

\* no entry with the normalized name: the supplied source lacks it, or no
\* source is supplied and no indexed source that lists the name holds it
EntryMissing ==
    LET name == capwords(sp.name) IN
    IF sp.source # <<>>
    THEN name \notin source_spells(spells_index[UpperStr(sp.source)])
    ELSE \A i \in 1..Len(spells_sources) :
            (spells_sources[i].key \in DOMAIN spells_index /\ name \in spells_sources[i].names)
                => name \notin source_spells(spells_index[spells_sources[i].key])

\* C12: once the lookup is over, source-not-found is reported, with the
\* source as typed, exactly when a source was supplied whose upper-cased
\* abbreviation is no key of the index; otherwise spell-not-found is
\* reported, with the name as typed, exactly when no entry with the
\* normalized name is found; never both, and neither for a matched spell.
C12_NotFoundReports ==
    sp.pc # "idle" =>
        /\ ReportedKind("source_not_found") <=> SourceUnknown
        /\ ReportedKind("source_not_found") => Reported("source_not_found", sp.source)
        /\ ReportedKind("spell_not_found") <=> (~SourceUnknown /\ EntryMissing)
        /\ ReportedKind("spell_not_found") => Reported("spell_not_found", sp.name)
        /\ ~(ReportedKind("source_not_found") /\ ReportedKind("spell_not_found"))

\* C13: the constructor does not raise when it is given a name or a source
\* for which there is no record.
C13_AbsentNeverRaises == (sp.pc # "idle" /\ ~sp.spell_dict) => ~sp.raised

\* C14: when the matched record has a shape the formatting pipeline cannot
\* render, the command ends with one message that shows the raw record.
C14_RawRecordFallback ==
    (sp.pc \notin {"idle", "matched"} /\ sp.spell_dict /\ sp.entry.shape # "ok") =>
        /\ sp.pc = "done"
        /\ Len(sp.sent) = 1 /\ sp.sent[1].kind = "raw_data"

\* '---'.join(sections)
RECURSIVE JoinDivider(_)
JoinDivider(sections) ==
    IF sections = <<>> THEN <<>>
    ELSE IF Len(sections) = 1 THEN Head(sections)
    ELSE Head(sections) \o Divider \o JoinDivider(Tail(sections))

SentContents == [i \in 1..Len(sp.sent) |-> sp.sent[i].content]

\* C20: when the document exceeds the limit, it goes out in parts: cut only
\* at newlines when the description alone exceeds the limit, and otherwise
\* cut only at "---", the parts sent then giving back the document when
\* joined with "---".
C20_SplitPolicy ==
    (sp.pc \notin {"idle", "matched"} /\ ~sp.raised /\ Len(sp.spell_markdown) > sp.limit) =>
        IF Len(sp.entry.desc) > sp.limit
        THEN /\ sp.pc = "done"
             /\ Concat(SentContents) = sp.spell_markdown
             /\ \A i \in 2..Len(sp.sent) : sp.sent[i].content # <<>> /\ sp.sent[i].content[1] = NL
        ELSE /\ sp.pc = "done"
             /\ \A i \in 1..Len(sp.sent) :
                    \A k \in 1..(Len(sp.sent[i].content) - 2) :
                        SubSeq(sp.sent[i].content, k, k + 2) # Divider
             /\ JoinDivider(SentContents) = sp.spell_markdown

----------------------------------------------------------------------------
(* the AI companion *)

\* C15: when the completion call fails, the handler still ends with a
\* reply: the content-filter fallback text after a content-policy
\* rejection, the generic fallback text after any other failure.
C15_FallbackRelayed ==
    (ai.forwarded /\ ai.call.kind # "ok") =>
        /\ ai.pc = "done"
        /\ Len(ai.sent) = 1
        /\ ai.sent[1].content = (IF ai.call.kind = "content_filter"
                                 THEN OPENAIFILTERRESPONSE ELSE OPENAIERRORRESPONSE)

\* C16: a message by another user that mentions the bot in a channel that
\* is no journal channel is forwarded to the AI companion, whatever it
\* replies to, and is answered when the completion arrives; a message in a
\* journal channel is never forwarded.
C16_MentionsForwarded ==
    ai.pc # "idle" =>
        /\ (ai.author # "bot" /\ ai.channel # "journal" /\ ai.mentions) =>
                /\ ai.forwarded
                /\ (ai.call.kind = "ok" /\ ai.pc = "done") => ai.sent # <<>>
        /\ ai.channel = "journal" => ~ai.forwarded

----------------------------------------------------------------------------
(* Properties of decorator stripping *)

\* the characters of part stand somewhere in d, next to each other
HasFragment(d, part) == \E i \in 1..(Len(d) + 1) : At(d, i, part)

StrippedTwiceSame == de.pc = "restripped" => de.twice = de.once

DamageRendered ==
    (de.pc # "idle" /\ HasFragment(de.description, Damage2d6))
        => HasFragment(de.once, <<"2", "d", "6">>)

\* C21: stripping an already stripped description gives the same text again,
\* and a description that contains "{@damage 2d6}" has that fragment
\* rendered as "2d6"
C21_StripIdempotent == StrippedTwiceSame /\ DamageRendered

----------------------------------------------------------------------------
(* Properties of send_prompt *)

\* the completion text without its leading dialog prefix, nothing else removed
WithoutPrefix(c) ==
    IF c # <<>> /\ Head(c) \in {FromInkwell, Inkwell} THEN Tail(c) ELSE c

\* send_prompt was called and the model returned a completion
PromptAnswered == ai.calls = 1 /\ ai.call.kind = "ok"

\* C22: send_prompt returns the completion text with exactly the leading
\* "From Inkwell: " or else exactly the leading "Inkwell: " removed, and the
\* text unchanged when it starts with neither
C22_OnlyPrefixRemoved == PromptAnswered => ai.completion = WithoutPrefix(ai.call.text)

----------------------------------------------------------------------------
(* Termination of split_message *)

\* C23: split_message terminates for every text and every limit of at
\* least 1: every turn of its loop leaves less text to split than the turn
\* found, also when the text left after a cut at a newline starts with
\* that newline
C23_LoopShortensContent ==
    [][(sm.pc = "loop" /\ sm'.pc = "loop") => Len(sm'.content) < Len(sm.content)]_vars

----------------------------------------------------------------------------
(* Interleaved edits of one journal post *)

\* handler s added text at the end of the body it had read
Appending(s) ==
    /\ h[s].edits >= 1
    /\ Len(h[s].new) > Len(h[s].read)
    /\ Prefix(h[s].new, Len(h[s].read)) = h[s].read

\* handlers s and t both read the same body and both edited the post,
\* the edit of t landing after the edit of s
Overwrote(s, t) ==
    /\ s # t
    /\ Appending(s) /\ Appending(t)
    /\ h[s].read = h[t].read
    /\ h[t].last

ReplyLostToReaction ==
    \E s, t \in Slots :
        /\ Overwrote(s, t)
        /\ h[s].kind = "msg" /\ h[t].kind = "react"
        /\ ~HasFragment(body, Suffix(h[s].new, Len(h[s].read)))

----------------------------------------------------------------------------
(* Chunks of one text *)

\* C25: of the chunks of one text the first by position, and no other, is
\* sent directly to the channel by the AI companion; every later chunk is
\* sent as a reply to the first, also when its content is that of the first
C25_OnlyFirstChunkDirect ==
    (ai.pc = "done" /\ Len(ai.sent) > 1) =>
        /\ ai.sent[1].via = "channel"
        /\ \A i \in 2..Len(ai.sent) : ai.sent[i].via = "reply"

----------------------------------------------------------------------------
(* The cautious pace *)

\* the body of travel has got past the DC, the pace and the navigation check
TravelResolved == tr.pc \in {"select", "done", "crashed"}

\* C26: with pace "cautious" and a 1d4 roll of 1 the party ends in the hex
\* it started from, whatever the navigator's check is: no replacement hex
\* is asked for and the outcome message says the party fails to leave its
\* hex; with any other pace no 1d4 roll is made
C26_CautiousRollOfOne ==
    TravelResolved =>
        /\ FailedOutright =>
              /\ tr.pc = "done"
              /\ tr.end_hex = tr.start_hex
              /\ tr.navigate_result = Mired
              /\ tr.selected = ""
              /\ tr.sent \in {<<"setting_out", "outcome">>, <<"setting_out", "outcome_encounter">>}
        /\ tr.pace # "cautious" => tr.slow_roll = 0
        /\ tr.pace = "cautious" => tr.slow_roll \in 1..4

\* a cautious party rolled 1 with a check that meets the DC and a target
\* other than the hex it is in
C26_Witness ==
    /\ tr.pc = "done" /\ FailedOutright
    /\ tr.nav_check >= tr.start_dc /\ tr.target_hex # tr.start_hex
    /\ tr.end_hex = tr.start_hex /\ tr.navigate_result = Mired

\* the same roll with a check below the DC: no menu was shown
MiredBelowDC ==
    /\ tr.pc = "done" /\ FailedOutright
    /\ tr.nav_check < tr.start_dc
    /\ tr.sent = <<"setting_out", "outcome">>

----------------------------------------------------------------------------
(* A hex that is no configured option *)

OutcomeSent ==
    tr.sent # <<>> /\ tr.sent[Len(tr.sent)] \in {"outcome", "outcome_encounter"}

\* C27: a starting or ending hex that matches no configured location option
\* is given DC 10, and the command still sends its outcome message
C27_UnknownHexIsDC10 ==
    TravelResolved =>
        /\ tr.pc # "crashed"
        /\ ~KnownHex(tr.start_hex) => tr.start_dc = PaceDC(10, tr.pace)
        /\ tr.pc = "done" =>
              /\ OutcomeSent
              /\ ~KnownHex(tr.end_hex) => tr.end_dc = 10

\* the lookup of the starting hex found no option and the handler raised
UnknownStartRaises ==
    tr.pc = "crashed" /\ ~KnownHex(tr.start_hex) /\ tr.sent = <<"setting_out">>

\* the same for the ending hex, the target of a successful navigation
UnknownEndRaises ==
    /\ tr.pc = "crashed" /\ KnownHex(tr.start_hex) /\ ~KnownHex(tr.target_hex)
    /\ tr.sent = <<"setting_out">>

----------------------------------------------------------------------------
(* The order of the messages of one travel invocation *)

Outcomes == {"outcome", "outcome_encounter"}
OutcomesSent == {i \in 1..Len(tr.sent) : tr.sent[i] \in Outcomes}
MenusSent == {i \in 1..Len(tr.sent) : tr.sent[i] = "lost_menu"}

\* C28: the "setting out" response is the first message of an invocation,
\* the "party became lost" menu, if any, comes after it, and the outcome
\* follow-up is the last message, sent at most once and only when the ending
\* hex is fixed: in the lost case not before the selection is received
C28_MessagesInOrder ==
    tr.pc \notin {"idle", "rejected"} =>
        /\ tr.sent # <<>> /\ tr.sent[1] = "setting_out"
        /\ \A i \in 2..Len(tr.sent) : tr.sent[i] # "setting_out"
        /\ \A i \in MenusSent : i = 2
        /\ \A i \in OutcomesSent : i = Len(tr.sent)
        /\ OutcomesSent # {} =>
              /\ tr.pc = "done"
              /\ KnownHex(tr.end_hex)
              /\ MenusSent # {} => (tr.selected # "" /\ tr.end_hex = tr.selected)
              /\ tr.navigate_result = Lost => MenusSent # {}
        /\ tr.pc = "select" => (OutcomesSent = {} /\ tr.selected = "")

\* a lost party: the response, the menu, and after the selection the outcome
C28_Witness ==
    /\ tr.pc = "done" /\ tr.navigate_result = Lost
    /\ tr.sent = <<"setting_out", "lost_menu", "outcome">>
    /\ tr.end_hex = tr.selected

----------------------------------------------------------------------------
(* The travel invocation and the other events *)

\* C30: during the suspense delay of a travel invocation no other handler
\* takes a step: whatever arrives is handled after the delay has ended
C30_NothingRunsDuringSleep ==
    [][tr.pc = "sleep" => UNCHANGED <<jvars, sm, rl, jc, sp, ai, de>>]_vars

\* a reply and a roll were handled to the end after the delay of a travel
\* invocation that has ended
C30_Witness ==
    /\ tr.pc = "done"
    /\ rl.pc = "done"
    /\ \E s \in Slots : h[s].kind = "msg" /\ h[s].pc = "done"

\* C29: a travel invocation that waits for the replacement hex stays as it
\* is and sends nothing until a selection is received, and every handler
\* that has started next to it runs to its end
C29_PendingDoesNotBlock ==
    /\ [][(tr.pc = "select" /\ tr'.selected = "") => tr' = tr]_vars
    /\ [](tr.pc = "select" => OutcomesSent = {})
    /\ \A s \in Slots : Active(s) ~> Finished(s)

\* the menu is unanswered while a reply and a roll have been handled to the
\* end and every event of the run has been dispatched
C29_Witness ==
    /\ tr.pc = "select" /\ tr.selected = ""
    /\ tr.sent = <<"setting_out", "lost_menu">>
    /\ rl.pc = "done"
    /\ \E s \in Slots : h[s].kind = "msg" /\ h[s].pc = "done" /\ h[s].before = <<>>
    /\ handled = MaxEvents

----------------------------------------------------------------------------
(* Acknowledgement lines of a checklist *)

\* the acknowledgement lines a text holds
AckLines(text) ==
    {ReactionLine(e, u) : e \in {CheckMark, CrossMark}, u \in Users}
        \cap {SplitNL(text)[i] : i \in 1..Len(SplitNL(text))}

\* C31: an acknowledgement line that is in a post when a later event is
\* handled stays in the post during and after the handling of that event,
\* be it a reaction, a note, "!clear", "!clearall" or "!replyas", the
\* events being handled one after another
C31_AckLinesStay ==
    \A s \in Slots : h[s].kind # "none" => AckLines(h[s].before) \subseteq AckLines(body)

\* the handler of a reply found an acknowledgement line in the post and has
\* ended: the line is still there
AckLineKeptByReply ==
    \E s \in Slots :
        /\ h[s].kind = "msg" /\ h[s].pc = "done" /\ h[s].edits = 1
        /\ AckLines(h[s].before) # {}
        /\ AckLines(h[s].before) \subseteq AckLines(body)

----------------------------------------------------------------------------
(* Reactions outside the checklist tracker *)

\* the handler in slot s answers a reaction to a message that is not the
\* bot's, or is outside the journal channels, or has no checklist marker
Untracked(s) ==
    /\ h[s].kind = "react"
    /\ \/ AuthorOf(h[s].target) # "bot"
       \/ ChannelOf(h[s].target) # "journal"
       \/ h[s].target = "post" /\ ~Contains(h[s].before, ChecklistMarker)

\* C32: a reaction added to a message that is not bot-authored, or not in a
\* journal channel, or whose body does not hold "today?)*", changes
\* nothing: the handler ends at once, edits no message and removes no
\* reaction, the post keeps its body and the reaction stays where it is.
C32_UntrackedReactionChangesNothing ==
    \A s \in Slots :
        Untracked(s) =>
            /\ h[s].pc \in {"returned", "ignored"}
            /\ h[s].edits = 0
            /\ h[s].removes = 0
            /\ body = h[s].before
            /\ h[s].target = "post" => h[s].user \in reactors[h[s].emoji]

\* a check mark was added to a bot message that quotes the checklist in a
\* channel that is no journal channel, and the handler has ended
C32_Witness ==
    \E s \in Slots :
        /\ h[s].kind = "react" /\ h[s].target = "answer"
        /\ h[s].emoji = CheckMark
        /\ Contains(h[s].orig, ChecklistMarker)
        /\ h[s].pc = "ignored"

\* the same on a player's own message in the journal channel
ReactionToPlayerReturned ==
    \E s \in Slots :
        /\ h[s].kind = "react" /\ h[s].target = "note"
        /\ Contains(h[s].orig, ChecklistMarker)
        /\ h[s].pc = "returned"

\* the same on a journal post without the marker
ReactionToPlainPostIgnored ==
    \E s \in Slots :
        /\ h[s].kind = "react" /\ h[s].target = "post"
        /\ ~Contains(h[s].before, ChecklistMarker)
        /\ h[s].pc = "ignored"

----------------------------------------------------------------------------
(* What the bot deletes *)

\* how the journal posts of InitBodies open
PostOpenings == {b[1] : b \in InitBodies}

\* C33: the bot has deleted no message that it wrote: a deleted message is
\* the reply of another user to the journal post, deleted by the handler
\* of that reply; a reaction handler deletes nothing; and the journal post
\* is still there, with its opening text, after every sequence of replies
\* and reactions.
C33_OnlyRepliesOfOthersDeleted ==
    /\ \A s \in Slots :
           h[s].deleted => h[s].kind = "msg" /\ h[s].user \in Users /\ h[s].user # "bot"
    /\ \A s \in Slots : h[s].user = "bot" => h[s].pc = "returned" /\ h[s].edits = 0
    /\ body # <<>> /\ body[1] \in PostOpenings

\* a player's reply has been deleted after an earlier event was handled,
\* and the post is there
C33_Witness ==
    /\ handled = MaxEvents
    /\ \E s \in Slots :
           h[s].kind = "msg" /\ h[s].pc = "done" /\ h[s].deleted /\ h[s].user = "u1"
    /\ body # <<>>

\* a reply of the bot's own to its post was left alone
OwnReplyLeftAlone ==
    \E s \in Slots :
        h[s].kind = "msg" /\ h[s].user = "bot" /\ h[s].pc = "returned" /\ ~h[s].deleted

----------------------------------------------------------------------------
(* One message, one system, one completion call *)

\* C34: an inbound message is handled by at most one of the journal note
\* system and the AI companion and causes at most one completion call, a
\* failed call included; a message written by the bot triggers neither; a
\* reply to a bot message that also mentions the bot is answered once,
\* through the reply branch; and the bot's own answers, when they come
\* back as events, cause no further call.
C34_OneSystemOneCall ==
    /\ ai.calls <= 1
    /\ ai.pc = "note" => ~ai.forwarded /\ ai.calls = 0 /\ ai.sent = <<>>
    /\ ai.forwarded => ai.pc # "note" /\ ai.calls = 1
    /\ (ai.pc # "idle" /\ ai.author = "bot") =>
           ai.pc = "ignored" /\ ~ai.forwarded /\ ai.calls = 0 /\ ai.sent = <<>>
    /\ (ai.pc # "idle" /\ ai.author # "bot" /\ ai.shape = "reply_to_bot" /\ ai.mentions
          /\ ai.channel # "journal") =>
           ai.calls = 1 /\ ai.context
    /\ (ai.pc = "done" /\ Len(ai.sent) > 1) =>
           ai.sent = SendChat(SplitParts(ai.completion, ai.limit))

\* a reply to a bot message that mentions the bot was answered in parts,
\* and every part has come back as a message of the bot
C34_Witness ==
    /\ ai.pc = "done" /\ ai.author # "bot"
    /\ ai.shape = "reply_to_bot" /\ ai.mentions /\ ai.channel # "journal"
    /\ ai.calls = 1
    /\ Len(ai.sent) > 1
    /\ ai.echoes = Len(ai.sent)

\* the completion call failed and was made once
FailedCallMadeOnce ==
    ai.pc = "crashed" /\ ai.call.kind # "ok" /\ ai.calls = 1

====
